---- MODULE Spec2Model ----
(***************************************************************************)
(* Model of main.js: one run of the recently-played job.                   *)
(*                                                                         *)
(*   main                        the run, one action per awaited step      *)
(*   getAccessToken              the token exchange                        *)
(*   getRecentlyPlayedTracks     the history request                       *)
(*   groupByDate                 the date partitioner                      *)
(*   generateRecentlyPlayedHTML  the renderer                              *)
(*                                                                         *)
(* A played_at timestamp "2024-01-<day>T<tod>Z" is the record              *)
(* [day, tod]; the API reports UTC.  A track keeps its name (an integer    *)
(* standing for the string) and the widths of its album images.            *)
(* A file is a record [exists, shape, items]; shape is what JSON.parse     *)
(* of its text yields: "ok" is an object whose items field is an array.    *)
(***************************************************************************)
EXTENDS Integers, Sequences, FiniteSets, TLC

\* ------------------------------------------------------------- bounds
MaxFetch == 3        \* items in one history response
MaxOld == 1          \* items of a pre-existing archive (archiver alone)
MaxNew == 2          \* items handed to the archiver (archiver alone)
MaxShort == 2        \* items of an arbitrary archive (renderer alone)
MaxArchiveLen == 12  \* items of a long archive (renderer alone)
MaxCalls == 2        \* calls of the archiver or the renderer alone

\* ---------------------------------------------------- program constants
HistoryLimit == 50   \* main passes limit = 50
RenderCap == 10      \* slice(0, 10)
ThumbWidth == 64     \* img.width === 64
MsPerDay == 86400000 \* new Date(...) counts milliseconds

Days == {1, 2}
Times == {0, 1}

NULL == "null"
UNDEFINED == "undefined"

TrackA == [name |-> 1, widths |-> {ThumbWidth, 300}]
TrackB == [name |-> 2, widths |-> {ThumbWidth}]
TrackC == [name |-> 3, widths |-> {300, 640}]
Tracks == {TrackA, TrackB, TrackC}

Stamps == [day : Days, tod : Times]
Events == [played_at : Stamps, track : Tracks]

Min(a, b) == IF a < b THEN a ELSE b

SeqsUpTo(S, n) == UNION {[1..k -> S] : k \in 0..n}

\* ------------------------------------------------------- JavaScript
\* a value is truthy unless it is null, undefined or the empty string
Truthy(v) == v \notin {NULL, UNDEFINED, ""}

\* Array.prototype.reverse
Reverse(s) == [i \in 1..Len(s) |-> s[Len(s) + 1 - i]]

\* Array.prototype.slice(0, n)
SliceFront(s, n) == SubSeq(s, 1, Min(Len(s), n))

\* new Date(played_at), as a number
DateValue(p) == p.day * MsPerDay + p.tod

\* item => item.played_at.split('T')[0]
DateExtractor(item) == item.played_at.day

\* the comparator with its operands swapped
CompareDesc(a, b) == DateValue(b.played_at) - DateValue(a.played_at)

\* (a, b) => new Date(a.played_at) - new Date(b.played_at)
Compare(a, b) == DateValue(a.played_at) - DateValue(b.played_at)

\* Array.prototype.sort is stable: an element goes after its equals
RECURSIVE InsertSorted(_, _)
InsertSorted(s, e) ==
  IF s = <<>> THEN <<e>>
  ELSE IF Compare(Head(s), e) <= 0
       THEN <<Head(s)>> \o InsertSorted(Tail(s), e)
       ELSE <<e>> \o s

RECURSIVE SortItems(_)
SortItems(s) ==
  IF s = <<>> THEN <<>>
  ELSE InsertSorted(SortItems(SubSeq(s, 1, Len(s) - 1)), s[Len(s)])

\* ------------------------------------------------------- groupByDate
\* groups is the object: keys in insertion order (Object.keys), and the
\* array under each key (<<>> under a key the object does not have)
NoGroups == [keys |-> <<>>, groups |-> [d \in Days |-> <<>>]]

InKeys(g, d) == \E i \in 1..Len(g.keys) : g.keys[i] = d

\* the push replaced by an assignment
GroupPushLossy(g, item) ==
  LET date == DateExtractor(item)
  IN [keys |-> IF InKeys(g, date) THEN g.keys ELSE Append(g.keys, date),
      groups |-> [g.groups EXCEPT ![date] = <<item>>]]

GroupPush(g, item) ==
  LET date == DateExtractor(item)
  IN [keys |-> IF InKeys(g, date) THEN g.keys ELSE Append(g.keys, date),
      groups |-> [g.groups EXCEPT ![date] = Append(@, item)]]

RECURSIVE groupByDate(_)
groupByDate(items) ==
  IF items = <<>> THEN NoGroups
  ELSE GroupPush(groupByDate(SubSeq(items, 1, Len(items) - 1)), items[Len(items)])

\* ------------------------------------------------------------- files
NoFile == [exists |-> FALSE, shape |-> "none", items |-> <<>>]
OkFile(items) == [exists |-> TRUE, shape |-> "ok", items |-> items]
BadFile(shape) == [exists |-> TRUE, shape |-> shape, items |-> <<>>]
\* text that is no JSON, JSON null, an object with no items, items no array
BadShapes == {"unparseable", "null", "noitems", "notarray"}

NoReadme == [exists |-> FALSE, table |-> <<>>]
OldReadme == [exists |-> TRUE, table |-> <<[name |-> 0, img |-> ThumbWidth, shade |-> 0]>>]

\* the cursor document: absent, {} or {cursor: {after: token}}
NoSchema == [exists |-> FALSE, hasCursor |-> FALSE, after |-> NULL]
EmptySchema == [exists |-> TRUE, hasCursor |-> FALSE, after |-> NULL]
CursorSchema(tok) == [exists |-> TRUE, hasCursor |-> TRUE, after |-> tok]

\* ------------------------------------------------ the archiving step
\* the step with the existing items overwritten
ArchiveReplace(file, items) ==
  [throws |-> FALSE, file |-> OkFile(items)]

\* db.read(); if (db.data) push(...items) else data = {items}; db.write()
Archive(file, items) ==
  IF ~file.exists \/ file.shape = "null"
    THEN [throws |-> FALSE, file |-> OkFile(items)]
  ELSE IF file.shape = "ok"
    THEN [throws |-> FALSE, file |-> OkFile(file.items \o items)]
  ELSE [throws |-> TRUE, file |-> file]

\* ------------------------------------------ generateRecentlyPlayedHTML
\* item => item.track
TrackOf(item) ==
  IF "track" \in DOMAIN item THEN item.track ELSE [undefined |-> TRUE]

\* the row's code throws on a track with no album, or no image of width 64
RowThrows(track) ==
  \/ "widths" \notin DOMAIN track
  \/ ThumbWidth \notin track.widths

Row(track, index) ==
  [name |-> track.name, img |-> ThumbWidth, shade |-> index % 2]

RenderOutcome(file, out, lastTenPlayed, written) ==
  IF \/ ~file.exists
     \/ file.shape # "ok"
     \/ \E i \in 1..Len(lastTenPlayed) : RowThrows(lastTenPlayed[i])
    THEN [error |-> TRUE, readme |-> out, file |-> file]
    ELSE [error |-> FALSE,
          readme |-> [exists |-> TRUE,
                      table |-> [i \in 1..Len(lastTenPlayed) |->
                                   Row(lastTenPlayed[i], i - 1)]],
          file |-> OkFile(written)]

\* slices before reversing: keeps the oldest rows
generateOldestFirst(file, out) ==
  LET played == [i \in 1..Len(file.items) |-> TrackOf(file.items[i])]
      firstTen == Reverse(SliceFront(played, RenderCap))
  IN RenderOutcome(file, out, firstTen, Reverse(firstTen))

\* reads a missing or non-array items field as no items
generateLenient(file, out) ==
  IF file.exists /\ file.shape \in {"noitems", "notarray"}
    THEN RenderOutcome(OkFile(<<>>), out, <<>>, <<>>)
    ELSE LET recentlyPlayed == Reverse([i \in 1..Len(file.items) |-> TrackOf(file.items[i])])
             lastTenPlayed == SliceFront(recentlyPlayed, RenderCap)
         IN RenderOutcome(file, out, lastTenPlayed, Reverse(lastTenPlayed))

generateRecentlyPlayedHTML(file, out) ==
  LET recentlyPlayed == Reverse([i \in 1..Len(file.items) |-> TrackOf(file.items[i])])
      lastTenPlayed == SliceFront(recentlyPlayed, RenderCap)
  IN RenderOutcome(file, out, lastTenPlayed, Reverse(lastTenPlayed))

\* ----------------------------------------------- getRecentlyPlayedTracks
\* the query string: limit always, after only when truthy
SearchParamsAlways(limit, after) ==
  << [key |-> "limit", value |-> limit], [key |-> "after", value |-> after] >>

SearchParams(limit, after) ==
  IF Truthy(after)
    THEN << [key |-> "limit", value |-> limit], [key |-> "after", value |-> after] >>
    ELSE << [key |-> "limit", value |-> limit] >>

\* ---------------------------------------------------------------- state
VARIABLES
  pc,              \* where the run is: the next awaited step of main
  env,             \* CLIENT_ID, CLIENT_SECRET and REFRESH_TOKEN are all set
  exitCode,        \* the process's exit code, -1 while it runs
  tempDir,         \* mkdtempSync has created the temporary directory
  files,           \* <tempDir>/<date>.json, by date
  readme,          \* README.md
  infoSchema,      \* ./info-schema.json
  dbData,          \* infoSchemaDB.data
  accessToken,
  cursorAfter,
  request,         \* the history request sent
  response,        \* the history response as received
  sortedItems,     \* data.items after the sort
  newCursorAfter,
  itemsByDate,
  dateIdx,         \* position of the for loop in dates
  log,             \* console.log and console.error lines
  unitItems,       \* the new items, when the archiver runs alone
  unitCalls,       \* calls made, when the archiver or renderer runs alone
  atStart          \* the files as they were when the run began

vars == <<pc, env, exitCode, tempDir, files, readme, infoSchema, dbData,
          accessToken, cursorAfter, request, response, sortedItems,
          newCursorAfter, itemsByDate, dateIdx, log, unitItems, unitCalls,
          atStart>>

NoFiles == [d \in Days |-> NoFile]
NoResponse == [thrown |-> FALSE, hasItems |-> FALSE, items |-> <<>>,
               hasCursors |-> FALSE, after |-> NULL]
NoRequest == [sent |-> FALSE, params |-> <<>>, bearer |-> UNDEFINED]

Line(stream, msg, day) == [stream |-> stream, msg |-> msg, day |-> day]

\* what the API can answer: a failed call, an error body (no items field),
\* or a page of items with cursors null or cursors.after null or a token
Responses ==
  {[NoResponse EXCEPT !.thrown = TRUE], NoResponse}
  \cup {[thrown |-> FALSE, hasItems |-> TRUE, items |-> its,
         hasCursors |-> c[1], after |-> c[2]] :
          its \in SeqsUpTo(Events, MaxFetch),
          c \in {<<FALSE, NULL>>, <<TRUE, NULL>>, <<TRUE, "c2">>}}

\* without an access token the API answers with an error body
ResponsesTo(token) ==
  IF token = UNDEFINED THEN {NoResponse} ELSE Responses

Locals ==
  /\ exitCode = -1
  /\ tempDir = FALSE
  /\ dbData = [hasCursor |-> FALSE, after |-> NULL]
  /\ accessToken = UNDEFINED
  /\ cursorAfter = NULL
  /\ request = NoRequest
  /\ response = NoResponse
  /\ sortedItems = <<>>
  /\ newCursorAfter = UNDEFINED
  /\ itemsByDate = NoGroups
  /\ dateIdx = 0
  /\ log = <<>>

Init ==
  /\ pc = "start"
  /\ env \in BOOLEAN
  /\ files = NoFiles
  /\ readme \in {NoReadme, OldReadme}
  /\ infoSchema \in {NoSchema, EmptySchema, CursorSchema("c1")}
  /\ Locals
  /\ unitItems = <<>>
  /\ unitCalls = 0
  /\ atStart = [infoSchema |-> infoSchema, readme |-> readme, files |-> files]

\* ----------------------------------------------------------------- main
\* lines 17-20
MissingEnv ==
  /\ pc = "start"
  /\ ~env
  /\ log' = Append(log, Line("err", "Missing environment variables", 0))
  /\ exitCode' = 1
  /\ pc' = "exited"
  /\ UNCHANGED <<env, tempDir, files, readme, infoSchema, dbData, accessToken,
                 cursorAfter, request, response, sortedItems, newCursorAfter,
                 itemsByDate, dateIdx, unitItems, unitCalls, atStart>>

\* lines 22-36
Startup ==
  /\ pc = "start"
  /\ env
  /\ tempDir' = TRUE
  /\ log' = Append(log, Line("out", "Temporary directory created", 0))
  /\ dbData' = IF infoSchema.exists
                 THEN [hasCursor |-> infoSchema.hasCursor, after |-> infoSchema.after]
                 ELSE [hasCursor |-> FALSE, after |-> NULL]
  /\ pc' = "token"
  /\ UNCHANGED <<env, exitCode, files, readme, infoSchema, accessToken,
                 cursorAfter, request, response, sortedItems, newCursorAfter,
                 itemsByDate, dateIdx, unitItems, unitCalls, atStart>>

\* an unhandled rejection ends the process
Crash ==
  /\ pc' = "crashed"
  /\ exitCode' = 1

\* line 39, lines 158-176
getAccessToken ==
  /\ pc = "token"
  /\ \E outcome \in {"thrown", "token", "notoken"} :
       IF outcome = "thrown"
         THEN Crash /\ UNCHANGED accessToken
         ELSE /\ accessToken' = IF outcome = "token" THEN "tok" ELSE UNDEFINED
              /\ pc' = "request"
              /\ UNCHANGED exitCode
  /\ UNCHANGED <<env, tempDir, files, readme, infoSchema, dbData,
                 cursorAfter, request, response, sortedItems, newCursorAfter,
                 itemsByDate, dateIdx, log, unitItems, unitCalls, atStart>>

\* lines 42-45 and 179-192: the request goes out
SendHistoryRequest ==
  /\ pc = "request"
  /\ cursorAfter' = IF dbData.hasCursor THEN dbData.after ELSE NULL
  /\ request' = [sent |-> TRUE,
                 params |-> SearchParams(HistoryLimit, cursorAfter'),
                 bearer |-> accessToken]
  /\ pc' = "response"
  /\ UNCHANGED <<env, exitCode, tempDir, files, readme, infoSchema, dbData,
                 accessToken, response, sortedItems, newCursorAfter,
                 itemsByDate, dateIdx, log, unitItems, unitCalls, atStart>>

\* the same without the check for an empty page
ReceiveHistoryNoEmptyCheck ==
  /\ pc = "response"
  /\ \E resp \in ResponsesTo(accessToken) :
       /\ response' = resp
       /\ IF resp.thrown \/ ~resp.hasItems \/ ~resp.hasCursors
            THEN /\ Crash
                 /\ UNCHANGED <<sortedItems, newCursorAfter, itemsByDate,
                                dateIdx, log>>
            ELSE /\ newCursorAfter' = resp.after
                 /\ sortedItems' = SortItems(resp.items)
                 /\ itemsByDate' = groupByDate(sortedItems')
                 /\ dateIdx' = 1
                 /\ log' = log \o <<Line("out", "previous cursor", 0),
                                    Line("out", "new cursor", 0)>>
                 /\ pc' = IF resp.items = <<>> THEN "write_cursor" ELSE "archive"
                 /\ UNCHANGED exitCode
  /\ UNCHANGED <<env, tempDir, files, readme, infoSchema, dbData, accessToken,
                 cursorAfter, request, unitItems, unitCalls, atStart>>

\* lines 194-195 and 45-63: the response comes back
ReceiveHistory ==
  /\ pc = "response"
  /\ \E resp \in ResponsesTo(accessToken) :
       /\ response' = resp
       /\ IF \/ resp.thrown
             \/ ~resp.hasItems
             \/ (resp.items # <<>> /\ ~resp.hasCursors)
            THEN /\ Crash
                 /\ UNCHANGED <<sortedItems, newCursorAfter, itemsByDate,
                                dateIdx, log>>
          ELSE IF resp.items = <<>>
            THEN /\ log' = Append(log, Line("out", "No new tracks found", 0))
                 /\ exitCode' = 0
                 /\ pc' = "exited"
                 /\ UNCHANGED <<sortedItems, newCursorAfter, itemsByDate, dateIdx>>
          ELSE /\ newCursorAfter' = resp.after
               /\ sortedItems' = SortItems(resp.items)
               /\ itemsByDate' = groupByDate(sortedItems')
               /\ dateIdx' = 1
               /\ log' = log \o <<Line("out", "previous cursor", 0),
                                  Line("out", "new cursor", 0)>>
               /\ pc' = "archive"
               /\ UNCHANGED exitCode
  /\ UNCHANGED <<env, tempDir, files, readme, infoSchema, dbData, accessToken,
                 cursorAfter, request, unitItems, unitCalls, atStart>>

\* lines 65-84
ArchiveDate ==
  /\ pc = "archive"
  /\ LET date == itemsByDate.keys[dateIdx]
         items == itemsByDate.groups[date]
         r == Archive(files[date], items)
     IN IF r.throws
          THEN Crash /\ UNCHANGED <<files, log>>
          ELSE /\ files' = [files EXCEPT ![date] = r.file]
               /\ log' = Append(log, Line("out", "wrote items", date))
               /\ pc' = "render"
               /\ UNCHANGED exitCode
  /\ UNCHANGED <<env, tempDir, readme, infoSchema, dbData, accessToken,
                 cursorAfter, request, response, sortedItems, newCursorAfter,
                 itemsByDate, dateIdx, unitItems, unitCalls, atStart>>

\* what the renderer prints: two lines on success, the error otherwise
RenderLines(r, date) ==
  IF r.error
    THEN <<Line("err", "Error generating README", date)>>
    ELSE <<Line("out", "README.md has been generated", date),
           Line("out", "Songs reordered", date)>>

\* the same with no try/catch around the renderer's body
RenderDateUncaught ==
  /\ pc = "render"
  /\ LET date == itemsByDate.keys[dateIdx]
         r == generateRecentlyPlayedHTML(files[date], readme)
     IN /\ readme' = r.readme
        /\ files' = [files EXCEPT ![date] = r.file]
        /\ log' = log \o RenderLines(r, date)
        /\ IF r.error
             THEN Crash /\ UNCHANGED dateIdx
             ELSE /\ dateIdx' = dateIdx + 1
                  /\ pc' = IF dateIdx < Len(itemsByDate.keys)
                             THEN "archive" ELSE "write_cursor"
                  /\ UNCHANGED exitCode
  /\ UNCHANGED <<env, tempDir, infoSchema, dbData, accessToken,
                 cursorAfter, request, response, sortedItems, newCursorAfter,
                 itemsByDate, unitItems, unitCalls, atStart>>

\* line 87, lines 100-155, and the loop's step
RenderDate ==
  /\ pc = "render"
  /\ LET date == itemsByDate.keys[dateIdx]
         r == generateRecentlyPlayedHTML(files[date], readme)
     IN /\ readme' = r.readme
        /\ files' = [files EXCEPT ![date] = r.file]
        /\ log' = log \o RenderLines(r, date)
  /\ dateIdx' = dateIdx + 1
  /\ pc' = IF dateIdx < Len(itemsByDate.keys) THEN "archive" ELSE "write_cursor"
  /\ UNCHANGED <<env, exitCode, tempDir, infoSchema, dbData, accessToken,
                 cursorAfter, request, response, sortedItems, newCursorAfter,
                 itemsByDate, unitItems, unitCalls, atStart>>

\* the same storing the token without testing it
WriteCursorAlways ==
  /\ pc = "write_cursor"
  /\ dbData' = [hasCursor |-> TRUE, after |-> newCursorAfter]
  /\ infoSchema' = [exists |-> TRUE, hasCursor |-> dbData'.hasCursor,
                    after |-> dbData'.after]
  /\ pc' = "done"
  /\ exitCode' = 0
  /\ UNCHANGED <<env, tempDir, files, readme, accessToken, cursorAfter,
                 request, response, sortedItems, newCursorAfter, itemsByDate,
                 dateIdx, log, unitItems, unitCalls, atStart>>

\* lines 90-97
WriteCursor ==
  /\ pc = "write_cursor"
  /\ dbData' = IF Truthy(newCursorAfter)
                 THEN [hasCursor |-> TRUE, after |-> newCursorAfter]
                 ELSE dbData
  /\ infoSchema' = [exists |-> TRUE, hasCursor |-> dbData'.hasCursor,
                    after |-> dbData'.after]
  /\ pc' = "done"
  /\ exitCode' = 0
  /\ UNCHANGED <<env, tempDir, files, readme, accessToken, cursorAfter,
                 request, response, sortedItems, newCursorAfter, itemsByDate,
                 dateIdx, log, unitItems, unitCalls, atStart>>

Next ==
  \/ MissingEnv
  \/ Startup
  \/ getAccessToken
  \/ SendHistoryRequest
  \/ ReceiveHistory
  \/ ArchiveDate
  \/ RenderDate
  \/ WriteCursor

Spec == Init /\ [][Next]_vars

\* ------------------------------------------------- the archiver alone
\* The archiving step of lines 65-84 on one date's file, which is absent
\* or holds earlier items, called with the same new items each time.
UnitDay == CHOOSE d \in Days : \A e \in Days : d <= e

InitArchiver ==
  /\ pc = "archiver"
  /\ env = TRUE
  /\ \E f \in {NoFile} \cup {OkFile(old) : old \in SeqsUpTo(Events, MaxOld)} :
       files = [NoFiles EXCEPT ![UnitDay] = f]
  /\ readme = NoReadme
  /\ infoSchema = NoSchema
  /\ Locals
  /\ unitItems \in SeqsUpTo(Events, MaxNew) \ {<<>>}
  /\ unitCalls = 0
  /\ atStart = [infoSchema |-> infoSchema, readme |-> readme, files |-> files]

ArchiverCall ==
  /\ pc = "archiver"
  /\ unitCalls < MaxCalls
  /\ LET r == Archive(files[UnitDay], unitItems)
     IN /\ ~r.throws
        /\ files' = [files EXCEPT ![UnitDay] = r.file]
  /\ log' = Append(log, Line("out", "wrote items", UnitDay))
  /\ unitCalls' = unitCalls + 1
  /\ UNCHANGED <<pc, env, exitCode, tempDir, readme, infoSchema, dbData,
                 accessToken, cursorAfter, request, response, sortedItems,
                 newCursorAfter, itemsByDate, dateIdx, unitItems, atStart>>

NextArchiver == ArchiverCall

SpecArchiver == InitArchiver /\ [][NextArchiver]_vars

\* ------------------------------------------------- the renderer alone
\* generateRecentlyPlayedHTML on one date's file in any condition: absent,
\* malformed, a short archive of any events, an archive a render has
\* already rewritten, or a long archive of distinct tracks of which at
\* most one lacks the 64-wide image.
LongArchive(n, bad) ==
  [i \in 1..n |->
     [played_at |-> [day |-> UnitDay, tod |-> i],
      track |-> [name |-> i,
                 widths |-> IF i = bad THEN {300} ELSE {ThumbWidth, 300}]]]

RenderInputs ==
  {NoFile}
  \cup {BadFile(sh) : sh \in BadShapes}
  \cup {OkFile(its) : its \in SeqsUpTo(Events, MaxShort)}
  \cup {OkFile(its) : its \in SeqsUpTo(Tracks, MaxShort)}
  \cup UNION {{OkFile(LongArchive(n, bad)) : bad \in 0..n} : n \in 0..MaxArchiveLen}

InitRenderer ==
  /\ pc = "renderer"
  /\ env = TRUE
  /\ \E f \in RenderInputs : files = [NoFiles EXCEPT ![UnitDay] = f]
  /\ readme \in {NoReadme, OldReadme}
  /\ infoSchema = NoSchema
  /\ Locals
  /\ unitItems = <<>>
  /\ unitCalls = 0
  /\ atStart = [infoSchema |-> infoSchema, readme |-> readme, files |-> files]

RendererCall ==
  /\ pc = "renderer"
  /\ unitCalls < MaxCalls
  /\ LET r == generateRecentlyPlayedHTML(files[UnitDay], readme)
     IN /\ readme' = r.readme
        /\ files' = [files EXCEPT ![UnitDay] = r.file]
        /\ log' = log \o RenderLines(r, UnitDay)
  /\ unitCalls' = unitCalls + 1
  /\ UNCHANGED <<pc, env, exitCode, tempDir, infoSchema, dbData,
                 accessToken, cursorAfter, request, response, sortedItems,
                 newCursorAfter, itemsByDate, dateIdx, unitItems, atStart>>

NextRenderer == RendererCall

SpecRenderer == InitRenderer /\ [][NextRenderer]_vars

\* =============================================================== claims
Last(s) == s[Len(s)]

HasLine(msg, day) == \E i \in 1..Len(log) : log[i].msg = msg /\ log[i].day = day

\* the date of the last successful render, 0 when no render succeeded
Generated == {i \in 1..Len(log) : log[i].msg = "README.md has been generated"}
LastGenerated ==
  IF Generated = {} THEN 0
  ELSE log[CHOOSE i \in Generated : \A j \in Generated : j <= i].day

\* the names a table for these items shows: most recent first, at most ten
NamesShown(items) ==
  LET n == Len(items)
      m == Min(RenderCap, n)
  IN [i \in 1..m |-> items[n + 1 - i].track.name]

TableNames(file) == [i \in 1..Len(file.table) |-> file.table[i].name]

KeysAscending ==
  \A i \in 1..Len(itemsByDate.keys) : \A j \in 1..Len(itemsByDate.keys) :
    i < j => itemsByDate.keys[i] < itemsByDate.keys[j]

LastDate == Last(itemsByDate.keys)

\* the date has been archived and then handed to the renderer
Processed(d) ==
  \E i \in 1..Len(log) : \E j \in 1..Len(log) :
    /\ i < j
    /\ log[i].msg = "wrote items" /\ log[i].day = d
    /\ log[j].msg \in {"README.md has been generated", "Error generating README"}
    /\ log[j].day = d

AllProcessed == \A i \in 1..Len(itemsByDate.keys) : Processed(itemsByDate.keys[i])

\* C1 as stated: after a full run README.md holds the table of the last
\* date in processing order, and the dates are processed in ascending order.
C1_LastDateSurvives ==
  pc = "done" =>
    /\ KeysAscending
    /\ readme.exists
    /\ TableNames(readme) = NamesShown(itemsByDate.groups[LastDate])

\* C1 amended: after a full run the dates have been processed in ascending
\* order and README.md holds the table of the last date whose rendering
\* succeeded; when no rendering succeeded it is as it was before the run.
C1_LastRenderedSurvives ==
  pc = "done" =>
    /\ KeysAscending
    /\ AllProcessed
    /\ IF LastGenerated = 0
         THEN readme = atStart.readme
         ELSE /\ readme.exists
              /\ InKeys(itemsByDate, LastGenerated)
              /\ \A i \in 1..Len(itemsByDate.keys) :
                   itemsByDate.keys[i] > LastGenerated
                     => HasLine("Error generating README", itemsByDate.keys[i])
              /\ TableNames(readme) = NamesShown(itemsByDate.groups[LastGenerated])

\* two events on the first date and one on the second, both rendered: the
\* table left is the one-row table of the second date
C1_Witness ==
  /\ pc = "done"
  /\ Len(itemsByDate.keys) = 2
  /\ Len(itemsByDate.groups[itemsByDate.keys[1]]) = 2
  /\ Len(itemsByDate.groups[LastDate]) = 1
  /\ HasLine("README.md has been generated", itemsByDate.keys[1])
  /\ LastGenerated = LastDate
  /\ Len(readme.table) = 1

\* C2: a successful render of an archive of n items writes a table of
\* min(10, n) rows, most recent first, and leaves the archive holding those
\* same rows oldest first.
C2_RenderCapsAndTrims ==
  [][(pc = "renderer" /\ unitCalls' = unitCalls + 1
        /\ Last(log').msg = "Songs reordered")
      => LET before == files[UnitDay].items
             n == Len(before)
             m == IF n < RenderCap THEN n ELSE RenderCap
             table == readme'.table
             after == files'[UnitDay].items
         IN /\ Len(table) = m
            /\ \A i \in 1..m : table[i].name = before[n + 1 - i].track.name
            /\ files'[UnitDay].exists /\ files'[UnitDay].shape = "ok"
            /\ Len(after) = m
            /\ \A i \in 1..m : after[i].name = table[m + 1 - i].name
            /\ \A i \in 1..m : after[i] = before[n - m + i].track]_vars

\* a render of an archive of more than ten items has succeeded
C2_Witness ==
  /\ pc = "renderer"
  /\ unitCalls = 1
  /\ Len(atStart.files[UnitDay].items) > RenderCap
  /\ Last(log).msg = "Songs reordered"
  /\ Len(readme.table) = RenderCap
  /\ Len(files[UnitDay].items) = RenderCap

\* C3 as stated: the cursor document is written only by the last step of a
\* run, only when the fetch produced a new token, and only after every date
\* group has been archived and handed to the renderer.
C3_WrittenOnlyWithNewToken ==
  [][infoSchema' # infoSchema
      => /\ pc = "write_cursor"
         /\ Truthy(newCursorAfter)
         /\ AllProcessed]_vars

\* C3 amended: the cursor document is written only by the last step of a
\* run, after every date group has been archived and handed to the
\* renderer; that write replaces the stored cursor only when the fetch
\* produced a new token, and otherwise rewrites the document with the
\* cursor it had; a run that stops earlier leaves the document as it was.
C3_CursorReplacedOnlyWithNewToken ==
  /\ [][infoSchema' # infoSchema
         => /\ pc = "write_cursor"
            /\ pc' = "done"
            /\ AllProcessed
            /\ infoSchema'.exists]_vars
  /\ [][(infoSchema'.hasCursor # infoSchema.hasCursor
           \/ infoSchema'.after # infoSchema.after)
         => /\ Truthy(newCursorAfter)
            /\ infoSchema'.hasCursor
            /\ infoSchema'.after = newCursorAfter]_vars
  /\ [][pc = "write_cursor" /\ Truthy(newCursorAfter)
         => infoSchema' = CursorSchema(newCursorAfter)]_vars
  /\ [](pc \in {"exited", "crashed"} => infoSchema = atStart.infoSchema)

\* a full run has replaced the stored cursor by the new token
C3_Witness ==
  /\ pc = "done"
  /\ atStart.infoSchema = CursorSchema("c1")
  /\ infoSchema = CursorSchema("c2")
  /\ Len(itemsByDate.keys) = 2

\* C4: every archive file that exists holds Play Events, each with
\* played_at and track, in ascending played_at order.
C4_ArchiveHoldsPlayEvents ==
  \A d \in Days :
    files[d].exists =>
      /\ \A i \in 1..Len(files[d].items) :
           {"played_at", "track"} \subseteq DOMAIN files[d].items[i]
      /\ \A i \in 1..Len(files[d].items) : \A j \in 1..Len(files[d].items) :
           i < j => DateValue(files[d].items[i].played_at)
                      <= DateValue(files[d].items[j].played_at)

\* C5: given an archive whose items field is missing or no array, the
\* renderer reports an error and writes neither README.md nor the archive.
C5_InvalidArchiveWritesNothing ==
  [][(pc = "renderer" /\ unitCalls' = unitCalls + 1
        /\ files[UnitDay].exists
        /\ files[UnitDay].shape \in {"noitems", "notarray"})
      => /\ log' = Append(log, Line("err", "Error generating README", UnitDay))
         /\ readme' = readme
         /\ files' = files]_vars

\* the renderer has been called on such an archive, README.md existing
C5_Witness ==
  /\ pc = "renderer"
  /\ unitCalls = 1
  /\ files[UnitDay].shape = "notarray"
  /\ readme = OldReadme
  /\ Last(log).stream = "err"

\* C6: a rendering error on one date writes nothing for that date and
\* does not end the run: the loop goes on to the next date, or to the
\* cursor write after the last one, and a finished run has archived every
\* date and handed it to the renderer.
C6_RenderErrorDoesNotAbort ==
  /\ [][(pc = "render" /\ Last(log').stream = "err")
         => /\ readme' = readme
            /\ files' = files
            /\ exitCode' = -1
            /\ dateIdx' = dateIdx + 1
            /\ pc' = IF dateIdx < Len(itemsByDate.keys)
                       THEN "archive" ELSE "write_cursor"]_vars
  /\ [][(pc \in {"archive", "render", "write_cursor"}) => (pc' # "crashed")]_vars
  /\ [](pc \in {"archive", "render"} => dateIdx \in 1..Len(itemsByDate.keys))
  /\ [](pc = "write_cursor" => dateIdx = Len(itemsByDate.keys) + 1)
  /\ [](pc = "done" => AllProcessed /\ infoSchema.exists)

\* the first date's rendering failed, the second date was archived and
\* rendered, and the cursor was written
C6_Witness ==
  /\ pc = "done"
  /\ Len(itemsByDate.keys) = 2
  /\ HasLine("Error generating README", itemsByDate.keys[1])
  /\ HasLine("README.md has been generated", LastDate)
  /\ files[itemsByDate.keys[1]] = OkFile(itemsByDate.groups[itemsByDate.keys[1]])
  /\ infoSchema = CursorSchema("c2")

\* C7: an empty page ends the run with exit code 0, with no archive
\* created and neither README.md nor the cursor document written.
C7_EmptyPageTouchesNothing ==
  (pc # "response" /\ ~response.thrown /\ response.hasItems
     /\ response.items = <<>>)
    => /\ pc = "exited"
       /\ exitCode = 0
       /\ files = NoFiles
       /\ readme = atStart.readme
       /\ infoSchema = atStart.infoSchema

\* an empty page has come back in a run that had a stored cursor
C7_Witness ==
  /\ pc = "exited"
  /\ exitCode = 0
  /\ response.hasItems
  /\ response.hasCursors
  /\ atStart.infoSchema = CursorSchema("c1")
  /\ atStart.readme = OldReadme

\* C8: the history request carries limit = 50 always, after = the stored
\* cursor when one is stored, and no after parameter when none is.
C8_AfterOnlyWhenStored ==
  request.sent =>
    LET params == request.params
        Values(k) == {params[i].value : i \in {j \in 1..Len(params) : params[j].key = k}}
        Keys == {params[i].key : i \in 1..Len(params)}
    IN /\ Values("limit") = {HistoryLimit}
       /\ Keys \subseteq {"limit", "after"}
       /\ Len(params) = Cardinality(Keys)
       /\ IF atStart.infoSchema.hasCursor
            THEN Values("after") = {atStart.infoSchema.after}
            ELSE "after" \notin Keys

\* a request has been sent in a run that had a stored cursor
C8_Witness ==
  /\ request.sent
  /\ atStart.infoSchema = CursorSchema("c1")
  /\ Len(request.params) = 2

\* C9: sorting and grouping yields one group per distinct date of the
\* fetched events, each group sorted ascending by timestamp and holding
\* only events of its date, and every fetched event is in the groups as
\* many times as it was fetched.
Count(s, e) == Cardinality({i \in 1..Len(s) : s[i] = e})

C9_GroupsPartitionTheFetch ==
  pc \in {"archive", "render", "write_cursor", "done"} =>
    LET input == response.items
        keys == itemsByDate.keys
        groups == itemsByDate.groups
    IN /\ {keys[i] : i \in 1..Len(keys)}
            = {DateExtractor(input[i]) : i \in 1..Len(input)}
       /\ \A i \in 1..Len(keys) : \A j \in 1..Len(keys) :
            keys[i] = keys[j] => i = j
       /\ \A d \in Days :
            /\ InKeys(itemsByDate, d) <=> groups[d] # <<>>
            /\ \A i \in 1..Len(groups[d]) : DateExtractor(groups[d][i]) = d
            /\ \A i \in 1..Len(groups[d]) : \A j \in 1..Len(groups[d]) :
                 i < j => DateValue(groups[d][i].played_at)
                            <= DateValue(groups[d][j].played_at)
       /\ \A e \in Events :
            /\ Count(groups[DateExtractor(e)], e) = Count(input, e)
            /\ \A d \in Days \ {DateExtractor(e)} : Count(groups[d], e) = 0

\* three events fetched out of order, of two dates, have been grouped
C9_Witness ==
  /\ pc = "archive"
  /\ Len(response.items) = MaxFetch
  /\ response.items # sortedItems
  /\ Len(itemsByDate.keys) = 2
  /\ \E d \in Days : Len(itemsByDate.groups[d]) >= 2

\* C10: the archiving step creates an absent archive with exactly the new
\* items and appends them to the tail of an existing one, so that k calls
\* with the same new items leave the old items followed by k copies of them.
RECURSIVE Repeat(_, _)
Repeat(s, k) == IF k = 0 THEN <<>> ELSE Repeat(s, k - 1) \o s

C10_ArchiveAppends ==
  pc = "archiver" =>
    LET old == IF atStart.files[UnitDay].exists
                 THEN atStart.files[UnitDay].items ELSE <<>>
    IN IF unitCalls = 0
         THEN files = atStart.files
         ELSE files[UnitDay] = OkFile(old \o Repeat(unitItems, unitCalls))

\* the step has run twice on a fresh archive: the items are there twice
C10_Witness ==
  /\ pc = "archiver"
  /\ unitCalls = 2
  /\ ~atStart.files[UnitDay].exists
  /\ Len(unitItems) = 2
  /\ files[UnitDay].items = unitItems \o unitItems

====
